---- MODULE Spec2Model ----
(***************************************************************************)
(* State-machine model of gemini-integrator-mcp's upload-and-poll          *)
(* orchestration:                                                          *)
(*   - the large-upload tool (tools/uploadLargeMedia.ts): handler,          *)
(*     detached background task, two-phase upload, status polling and      *)
(*     completion notifications                      (specification Spec)  *)
(*   - the ordinary understanding flow (tools/understandMedia.ts): the     *)
(*     concurrent per-file resolutions of one request, the generation      *)
(*     call and the cleanup of temp files  (specification SpecUnderstand)  *)
(***************************************************************************)
EXTENDS Integers, Sequences, FiniteSets, TLC

(***************************************************************************)
(* Program constants                                                       *)
(***************************************************************************)
\* uploadLargeMedia.ts: const MAX_FILE_POLLING_ATTEMPTS = 90
MAX_FILE_POLLING_ATTEMPTS == 90

\* mediaLimitUtils.ts: GEMINI_MAX_INLINE_SIZE_BYTES = 20 * 1024 * 1024, which is
\* also the default effective limit (DEFAULT_UNDERSTAND_MEDIA_LIMIT_MB = 20).
USER_LIMIT_BYTES == 20971520

\* understandMedia.ts: const MAX_FILE_SIZE_BYTES = 20 * 1024 * 1024
MAX_FILE_SIZE_BYTES == 20971520

(***************************************************************************)
(* Inputs of the environment                                               *)
(***************************************************************************)
\* FileInfo.state as the status endpoint can report it, "OTHER" for an
\* unrecognised value, and "ERROR" for a getStatus call that throws
\* (transport error, or a response without data).
FileStates == {"PROCESSING", "ACTIVE", "FAILED", "STATE_UNSPECIFIED", "OTHER", "ERROR"}

\* stats.size as fs.stat can report it for the file to upload: empty, at the
\* limit, just over the limit.
UploadFileSizes == {0, USER_LIMIT_BYTES, USER_LIMIT_BYTES + 1}

\* Result of the MIME determination: no type found, a type outside
\* SUPPORTED_MIME_TYPES, a supported type.
MimeResults == {"undefined", "unsupported", "video/mp4"}

\* uploadResult of a successful data upload: responseData.file.{name, uri}
RemoteName == "files/abc"
RemoteUri == "https://generativelanguage.googleapis.com/v1beta/files/abc"


(***************************************************************************)
(* Bounds                                                                  *)
(***************************************************************************)
\* Largest number of entries of params.files.
MaxFiles == 2

\* Largest number of notifications dispatched in one run.
MaxNotifies == 2

\* Largest number of deleteFile calls for one path.
MaxDeletes == 2

\* Largest length of the configured size limit text.
MaxLimitLen == 3

(***************************************************************************)
(* Inputs of the understanding flow                                        *)
(***************************************************************************)
\* mime_type values a caller passes along with a file_uri.
GivenMimes == {"video/mp4", "application/pdf", "unsupported"}

\* A fileSource object as the caller sends it: for each of url / path /
\* file_uri whether it is populated ("" when absent), a url either matching
\* YOUTUBE_URL_REGEX ("youtube") or not ("web"), and mime_type, which callers
\* send only along with a file_uri.
FileSources ==
    {f \in [url : {"", "youtube", "web"}, path : {"", "p"},
            file_uri : {"", "f"}, mime_type : {""} \cup GivenMimes] :
        f.mime_type # "" => f.file_uri # ""}

\* MIME type found for a downloaded or local file ("undefined": none).
DetectedMimes == {"undefined", "unsupported", "video/mp4", "image/png"}

\* stats.size of a downloaded or local file: empty, at the limit, over it.
MediaSizes == {0, MAX_FILE_SIZE_BYTES, MAX_FILE_SIZE_BYTES + 1}

\* The HEAD answer: a failed request or no valid Content-Length header
\* (NoLen), or the Content-Length.
NoLen == -1
HeadAnswers == {NoLen} \cup MediaSizes

\* SUPPORTED_MIME_TYPES.has(mimeType)
Supported(m) == m \in {"video/mp4", "image/png", "application/pdf"}

\* mimeType.startsWith('video/')
IsVideo(m) == m = "video/mp4"

VARIABLES
    \* ---- large-upload tool -------------------------------------------------
    source,            \* which of params.url / params.path is populated
    notifyConfigured,  \* isNotificationConfigured()
    hpc,               \* position of handleUploadLargeMedia
    handlerResponse,   \* text the handler returned: "none" | "error" | "accepted"
    bpc,               \* position of the setImmediate callback
    cleanupPath,       \* cleanupPath !== null
    tempFile,          \* the downloaded temp file exists on disk
    fileSize,          \* fileSize of the file to upload
    uploadUrl,         \* uploadUrl returned by the start request ("" when none)
    putTarget,         \* history: URL the axios.put request was addressed to
    uploadResult,      \* {name, uri} of the uploaded object, or NoFile
    attempts,          \* attempts of pollFileStatusAndNotify
    onlyProcessing,    \* history: every getStatus answer before the last was PROCESSING
    lastState,         \* history: the answer of the most recent getStatus call
    sawFailed,         \* history: some getStatus call has answered FAILED
    outcome,           \* task outcome as reported so far
    calls,             \* history: number of remote calls, per kind
    notes,             \* history: number of dispatcher invocations, per marker
    msgUri,            \* URI embedded in the most recent poll notification
    lastMsg,           \* history: the most recent notification message
    \* ---- understanding tool: one request ------------------------------------
    files,             \* params.files of the request
    envelope,          \* answer to the CallTool request: "none" | "content" | "McpError"
    rpc,               \* position of handleUnderstandMedia
    mapIdx,            \* next index of files.map
    fpc,               \* position of each file's resolution (async callback)
    headLen,           \* history: Content-Length the HEAD answer carried, or NoLen
    mimeType,          \* mimeType of each resolution
    fileSizeOf,        \* history: stats.size each resolution read, or NoLen
    failure,           \* history: the error each resolution threw, or "none"
    tempOnDisk,        \* the downloaded temp file of each resolution exists on disk
    cleanupPaths,      \* indexes whose localFilePath was pushed to cleanupPaths
    processedFiles,    \* processedFiles, in push order
    videoCount,        \* videoCount
    reqs,              \* history: requests issued, per kind and file
    genCalls,          \* history: number of generateContent calls
    result,            \* what the handler ended with: "none" | "text" | "error" | "thrown"
    deleted            \* history: indexes whose path was handed to deleteFile

uvars == <<source, notifyConfigured, hpc, handlerResponse, bpc, cleanupPath,
           tempFile, fileSize, uploadUrl, putTarget, uploadResult, attempts,
           onlyProcessing, lastState, sawFailed, outcome, calls, notes, msgUri,
           lastMsg>>

mvars == <<files, envelope, rpc, mapIdx, fpc, headLen, mimeType, fileSizeOf,
           failure, tempOnDisk, cleanupPaths, processedFiles, videoCount, reqs,
           genCalls, result, deleted>>

VARIABLES
    \* ---- notification utilities ---------------------------------------------
    cfg,               \* the notification settings of config.ts ("" when unset)
    npc,               \* position of the caller's pair of send calls
    nCalls,            \* history: number of notifications dispatched
    attempted,         \* history: delivery requests issued, per channel
    failed,            \* history: delivery requests that failed, per channel
    sentAction,        \* action of the most recent OneBot request
    escaped            \* an error of a send function reached the caller

nvars == <<cfg, npc, nCalls, attempted, failed, sentAction, escaped>>

VARIABLES
    \* ---- fileUtils: deleteFile ------------------------------------------------
    disk,              \* the paths that exist on disk
    delCalls,          \* history: number of deleteFile calls, per path
    delLog,            \* what the most recent deleteFile call of a path logged
    delRaised,         \* a deleteFile call threw
    \* ---- mediaLimitUtils: getEffectiveMediaSizeLimit -------------------------
    rawLimit,          \* RAW_UNDERSTAND_MEDIA_SIZE_LIMIT_MB, as a sequence of characters
    lpc,               \* "idle" | "returned"
    limitResult        \* the returned { limitMB, limitBytes }

dvars == <<disk, delCalls, delLog, delRaised>>

lvars == <<rawLimit, lpc, limitResult>>

vars == <<uvars, mvars, nvars, dvars, lvars>>

NoFile == [name |-> "", uri |-> ""]

CallKinds == {"download", "beginUpload", "sendBytes", "getStatus"}
Markers == {"info", "success", "failure", "timeout", "error"}

Bump(f, k) == [f EXCEPT ![k] = @ + 1]

(***************************************************************************)
(* fileUtils: deleteFile                                                   *)
(***************************************************************************)
TempPaths == {"tmp/a", "tmp/b", "tmp/c"}

\* fs.unlink(filePath): ENOENT for a path that does not exist; for an
\* existing one it succeeds or fails with another error (EPERM).
UnlinkOutcomes(path, onDisk) ==
    IF path \in onDisk THEN {"ok", "EPERM"} ELSE {"ENOENT"}

\* The catch clause rethrowing what it caught.
DeleteCatch_Rethrow(code) == "throw"

\* catch (error) { if (error.code !== 'ENOENT') console.error(...) else
\* console.log(...) }: both branches only log.
DeleteCatch(code) == "return"

\* What a call logs.
DeleteLog(code) ==
    CASE code = "ok"     -> "deleted"
      [] code = "ENOENT" -> "notfound"
      [] OTHER           -> "error"

DInitFor(d) ==
    /\ disk = d
    /\ delCalls = [q \in TempPaths |-> 0]
    /\ delLog = [q \in TempPaths |-> "none"]
    /\ delRaised = FALSE

\* No deleteFile activity, for the other specifications.
DQuiet == DInitFor({})

\* deleteFile(filePath)
DeleteFile(path) ==
    /\ ~delRaised
    /\ delCalls[path] < MaxDeletes
    /\ \E code \in UnlinkOutcomes(path, disk) :
         /\ disk' = IF code = "ok" THEN disk \ {path} ELSE disk
         /\ delCalls' = Bump(delCalls, path)
         /\ delLog' = [delLog EXCEPT ![path] = DeleteLog(code)]
         /\ delRaised' = (code # "ok" /\ DeleteCatch(code) = "throw")
    /\ UNCHANGED <<uvars, mvars, nvars, lvars>>

DNext == \E path \in TempPaths : DeleteFile(path)

(***************************************************************************)
(* mediaLimitUtils: getEffectiveMediaSizeLimit                             *)
(***************************************************************************)
GEMINI_MAX_INLINE_SIZE_BYTES == 20 * 1024 * 1024

DEFAULT_UNDERSTAND_MEDIA_LIMIT_MB == 20

\* String(DEFAULT_UNDERSTAND_MEDIA_LIMIT_MB)
DefaultLimitText == <<"2", "0">>

\* Characters of the configured text: digits, a sign, white space, another
\* character.
LimitChars == {"0", "1", "2", "9", "-", " ", "x"}

\* The configured texts, the empty one standing for an unset or empty value.
LimitTexts == UNION {[1..n -> LimitChars] : n \in 0..MaxLimitLen}

IsDigit(c) == c \in {"0", "1", "2", "9"}

DigitVal(c) ==
    CASE c = "0" -> 0
      [] c = "1" -> 1
      [] c = "2" -> 2
      [] c = "9" -> 9

NaN == [nan |-> TRUE, val |-> 0]

RECURSIVE SkipSpace(_)
SkipSpace(s) == IF s # <<>> /\ Head(s) = " " THEN SkipSpace(Tail(s)) ELSE s

RECURSIVE DigitsPrefix(_)
DigitsPrefix(s) ==
    IF s # <<>> /\ IsDigit(Head(s)) THEN <<Head(s)>> \o DigitsPrefix(Tail(s))
    ELSE <<>>

RECURSIVE DecimalValue(_, _)
DecimalValue(ds, acc) ==
    IF ds = <<>> THEN acc
    ELSE DecimalValue(Tail(ds), acc * 10 + DigitVal(Head(ds)))

\* parseInt(text, 10): leading white space is skipped, a sign is read, then
\* the longest run of digits; NaN when there is no digit.
parseInt(text) ==
    LET t   == SkipSpace(text)
        neg == t # <<>> /\ Head(t) = "-"
        ds  == DigitsPrefix(IF neg THEN Tail(t) ELSE t)
        v   == DecimalValue(ds, 0)
    IN  IF ds = <<>> THEN NaN
        ELSE [nan |-> FALSE, val |-> IF neg THEN 0 - v ELSE v]

\* isNaN(parsedUserLimitMB) || parsedUserLimitMB <= 0 ? DEFAULT : parsed
Validated(parsed) ==
    IF parsed.nan \/ parsed.val <= 0 THEN DEFAULT_UNDERSTAND_MEDIA_LIMIT_MB
    ELSE parsed.val

Min(a, b) == IF a <= b THEN a ELSE b

\* The limit in bytes without the cap.
EffectiveBytes_Uncapped(mb) == mb * 1024 * 1024

\* Math.min(validatedUserLimitMB * 1024 * 1024, GEMINI_MAX_INLINE_SIZE_BYTES)
\* The code's numbers are doubles, exact for every product here; the minimum
\* is taken in units of 1024 bytes (both operands are multiples of 1024) so
\* that no intermediate value leaves the 32-bit integers of the checker.
EffectiveBytes(mb) ==
    Min(mb * 1024, GEMINI_MAX_INLINE_SIZE_BYTES \div 1024) * 1024

getEffectiveMediaSizeLimit(raw) ==
    LET text  == IF raw = <<>> THEN DefaultLimitText ELSE raw
        bytes == EffectiveBytes(Validated(parseInt(text)))
    IN  [limitMB |-> bytes \div (1024 * 1024), limitBytes |-> bytes]

LInitFor(raw) ==
    /\ rawLimit = raw
    /\ lpc = "idle"
    /\ limitResult = [limitMB |-> 0, limitBytes |-> 0]

\* No call of getEffectiveMediaSizeLimit, for the other specifications.
LQuiet == LInitFor(<<>>)

\* A module calls getEffectiveMediaSizeLimit(context) when it is loaded.
EffectiveLimit ==
    /\ lpc = "idle"
    /\ limitResult' = getEffectiveMediaSizeLimit(rawLimit)
    /\ lpc' = "returned"
    /\ UNCHANGED rawLimit
    /\ UNCHANGED <<uvars, mvars, nvars, dvars>>

LNext == EffectiveLimit

(***************************************************************************)
(* pollFileStatusAndNotify, one iteration of its while loop                *)
(***************************************************************************)
\* while (attempts < MAX_FILE_POLLING_ATTEMPTS)
LoopGuard(a) == a < MAX_FILE_POLLING_ATTEMPTS

\* TryBlock without the return statement of the ACTIVE branch.
TryBlock_NoReturn(st) ==
    CASE st = "FAILED" -> "throw"
      [] st = "ERROR"  -> "throw"
      [] OTHER         -> "next"

\* The try block: what the answer of axiosInstance.get leads to.
\*   "return" : ACTIVE, success notification, return
\*   "throw"  : FAILED (after the failure notification) or a failed call
\*   "next"   : PROCESSING, STATE_UNSPECIFIED, anything else
TryBlock(st) ==
    CASE st = "ACTIVE" -> "return"
      [] st = "FAILED" -> "throw"
      [] st = "ERROR"  -> "throw"
      [] OTHER         -> "next"

\* catch (pollError) { console.error(...) }: the catch clause encloses the
\* whole try block, so every throw of the block ends up after the catch.
AfterCatch(t) == IF t = "throw" THEN "next" ELSE t

\* TimedOut with > in place of >=.
TimedOut_Strict(a) == a > MAX_FILE_POLLING_ATTEMPTS

\* if (attempts >= MAX_FILE_POLLING_ATTEMPTS) { timeout notification; throw }
TimedOut(a) == a >= MAX_FILE_POLLING_ATTEMPTS

\* Marker of the notification the try block dispatches for an answer.
TryMarker(st) ==
    CASE st = "ACTIVE" -> "success"
      [] st = "FAILED" -> "failure"
      [] OTHER         -> "none"

\* Outcome a marker reports. The error notification of the background
\* task's catch re-reports the thrown error: it reports a failure for a task
\* that has reported nothing yet.
Reported(o, m) ==
    CASE m = "success" -> "Succeeded"
      [] m = "failure" -> "Failed"
      [] m = "timeout" -> "TimedOut"
      [] m = "error"   -> IF o = "Pending" THEN "Failed" ELSE o
      [] OTHER         -> o

(***************************************************************************)
(* handleUploadLargeMedia                                                  *)
(***************************************************************************)
\* The callback called directly, in place of setImmediate.
ImmediateRunnable_Direct(h) == TRUE

\* setImmediate(cb): cb runs in a later turn of the event loop, after the
\* synchronous code that scheduled it has run to its end (the handler has
\* no await before its return statement).
ImmediateRunnable(h) == h = "returned"

\* responseData.updateTime of a status answer ("" when it carries none);
\* apiUpdateTime is assigned from the answer before each of its uses.
UpdateTimes == {"", "2025-01-01T00:00:00Z"}

\* The fields a notification message embeds, by its marker.
MessageFields(m) ==
    CASE m = "success" -> {"source", "uri", "mime", "time"}
      [] m = "failure" -> {"source", "uri", "mime", "time"}
      [] m = "timeout" -> {"source", "uri", "mime"}
      [] m = "info"    -> {"source", "path"}
      [] m = "error"   -> {"source", "error"}
      [] OTHER         -> {}

\* The time field with the raw text of the answer.
TimeField_Raw(t) == t

\* apiUpdateTime ? new Date(apiUpdateTime).toLocaleString() : 'N/A'
TimeField(t) == IF t = "" THEN "N/A" ELSE "localized"

\* The message a notification of marker m carries; raw is the update time
\* its time field was made from.
Message(m, t) ==
    [marker |-> m,
     fields |-> MessageFields(m),
     raw    |-> IF "time" \in MessageFields(m) THEN t ELSE "",
     time   |-> IF "time" \in MessageFields(m) THEN TimeField(t) ELSE ""]

NoMessage == [marker |-> "none", fields |-> {}, raw |-> "", time |-> ""]

\* The data request addressed to the start endpoint instead of the session URL.
PutUrl_StartEndpoint(u) == "start"

\* axios.put(uploadUrl, fileData, ...): the data request goes to the upload
\* URL the start request returned, directly and not through the proxy.
PutUrl(u) == u

\* The size checks without the empty-file test.
EmptyFile_Never(s) == FALSE

\* if (fileSize === 0) throw ...: the test of the handler's two branches and
\* of uploadFileToGoogleApi (numBytes === 0).
EmptyFile(s) == s = 0

\* The start request tried again after a failure.
StartFlow_Retry(r) == IF r = "url" THEN "send" ELSE "begin"

\* What follows the start request: phase 2 when the response carried an
\* upload URL; otherwise the throw of the missing URL or of the failed
\* request, rethrown by the catch clause to the background task's catch.
StartFlow(r) == IF r = "url" THEN "send" ELSE "catch"

UInit ==
    /\ source \in {"url", "path"}
    /\ notifyConfigured \in BOOLEAN
    /\ hpc = "idle"
    /\ handlerResponse = "none"
    /\ bpc = "none"
    /\ cleanupPath = FALSE
    /\ tempFile = FALSE
    /\ fileSize = 0
    /\ uploadUrl = ""
    /\ putTarget = ""
    /\ uploadResult = NoFile
    /\ attempts = 0
    /\ onlyProcessing = TRUE
    /\ lastState = "none"
    /\ sawFailed = FALSE
    /\ outcome = "Pending"
    /\ calls = [k \in CallKinds |-> 0]
    /\ notes = [m \in Markers |-> 0]
    /\ msgUri = ""
    /\ lastMsg = NoMessage

\* The handler without the configuration check.
NotificationGate_Off(n) == TRUE

\* if (!isNotificationConfigured()) { ...; return { content: [error text] } }
\* the handler goes on only when a notification channel is configured.
NotificationGate(n) == n

\* Steps 1-3 of the handler: the configuration check, then setImmediate.
HandlerCall ==
    /\ hpc = "idle"
    /\ IF ~NotificationGate(notifyConfigured)
         THEN /\ hpc' = "returned"
              /\ handlerResponse' = "error"
              /\ bpc' = bpc
         ELSE /\ hpc' = "scheduled"
              /\ handlerResponse' = handlerResponse
              /\ bpc' = "queued"
    /\ UNCHANGED <<source, notifyConfigured, cleanupPath, tempFile, fileSize,
                   uploadUrl, putTarget, uploadResult, attempts, onlyProcessing, lastState, sawFailed,
                   outcome, calls, notes, msgUri, lastMsg>>
    /\ UNCHANGED <<mvars, nvars, dvars, lvars>>

\* return { content: [{ type: 'text', text: initialResponse }] }
HandlerReturn ==
    /\ hpc = "scheduled"
    /\ hpc' = "returned"
    /\ handlerResponse' = "accepted"
    /\ UNCHANGED <<source, notifyConfigured, bpc, cleanupPath, tempFile, fileSize,
                   uploadUrl, putTarget, uploadResult, attempts, onlyProcessing, lastState, sawFailed,
                   outcome, calls, notes, msgUri, lastMsg>>
    /\ UNCHANGED <<mvars, nvars, dvars, lvars>>

\* A. URL input: downloadFile, then the download notification. A failed
\* download removes its own partial file and throws.
BgDownload ==
    /\ bpc = "queued"
    /\ ImmediateRunnable(hpc)
    /\ source = "url"
    /\ calls' = Bump(calls, "download")
    /\ \E ok \in BOOLEAN :
         IF ok
           THEN /\ tempFile' = TRUE
                /\ cleanupPath' = TRUE
                /\ notes' = Bump(notes, "info")
                /\ lastMsg' = Message("info", "")
                /\ bpc' = "inspect"
           ELSE /\ UNCHANGED <<tempFile, cleanupPath, notes, lastMsg>>
                /\ bpc' = "catch"
    /\ UNCHANGED <<source, notifyConfigured, hpc, handlerResponse, fileSize,
                   uploadUrl, putTarget, uploadResult, attempts, onlyProcessing, lastState, sawFailed,
                   outcome, msgUri>>
    /\ UNCHANGED <<mvars, nvars, dvars, lvars>>

\* B. path input: fs.access(filePathToUpload)
BgAccess ==
    /\ bpc = "queued"
    /\ ImmediateRunnable(hpc)
    /\ source = "path"
    /\ \E ok \in BOOLEAN : bpc' = IF ok THEN "inspect" ELSE "catch"
    /\ UNCHANGED <<source, notifyConfigured, hpc, handlerResponse, cleanupPath,
                   tempFile, fileSize, uploadUrl, putTarget, uploadResult, attempts,
                   onlyProcessing, lastState, sawFailed, outcome, calls, notes, msgUri, lastMsg>>
    /\ UNCHANGED <<mvars, nvars, dvars, lvars>>

\* Both branches: MIME type determination, SUPPORTED_MIME_TYPES check,
\* fs.stat and the empty-file check.
BgInspect ==
    /\ bpc = "inspect"
    /\ \E m \in MimeResults, s \in UploadFileSizes :
         IF m = "undefined" \/ m = "unsupported" \/ EmptyFile(s)
           THEN /\ bpc' = "catch"
                /\ fileSize' = fileSize
           ELSE /\ bpc' = "begin"
                /\ fileSize' = s
    /\ UNCHANGED <<source, notifyConfigured, hpc, handlerResponse, cleanupPath,
                   tempFile, uploadUrl, putTarget, uploadResult, attempts, onlyProcessing,
                   lastState, sawFailed, outcome, calls, notes, msgUri, lastMsg>>
    /\ UNCHANGED <<mvars, nvars, dvars, lvars>>

\* uploadFileToGoogleApi, phase 1: the numBytes === 0 check, then the start
\* request. The size check against USER_LIMIT_BYTES only logs a warning.
BeginUpload ==
    /\ bpc = "begin"
    /\ IF EmptyFile(fileSize)
         THEN /\ bpc' = "catch"
              /\ UNCHANGED <<calls, uploadUrl>>
         ELSE /\ calls' = Bump(calls, "beginUpload")
              /\ \E r \in {"url", "nourl", "error"} :
                   /\ uploadUrl' = IF r = "url" THEN "session" ELSE uploadUrl
                   /\ bpc' = StartFlow(r)
    /\ UNCHANGED <<source, notifyConfigured, hpc, handlerResponse, cleanupPath,
                   tempFile, fileSize, putTarget, uploadResult, attempts,
                   onlyProcessing, lastState, sawFailed, outcome, notes, msgUri, lastMsg>>
    /\ UNCHANGED <<mvars, nvars, dvars, lvars>>

\* uploadFileToGoogleApi, phase 2: fs.readFile, then axios.put(uploadUrl,
\* fileData). A failed read throws before the request is issued; a response
\* without status 200, file.uri and file.name throws after it.
SendBytes ==
    /\ bpc = "send"
    /\ \E r \in {"readerror", "ok", "incomplete", "error"} :
         /\ calls' = IF r = "readerror" THEN calls ELSE Bump(calls, "sendBytes")
         /\ putTarget' = IF r = "readerror" THEN putTarget ELSE PutUrl(uploadUrl)
         /\ IF r = "ok"
              THEN /\ uploadResult' = [name |-> RemoteName, uri |-> RemoteUri]
                   /\ bpc' = "poll"
              ELSE /\ uploadResult' = uploadResult
                   /\ bpc' = "catch"
    /\ UNCHANGED <<source, notifyConfigured, hpc, handlerResponse, cleanupPath,
                   tempFile, fileSize, uploadUrl, attempts, onlyProcessing,
                   lastState, sawFailed, outcome, notes, msgUri, lastMsg>>
    /\ UNCHANGED <<mvars, nvars, dvars, lvars>>

\* One iteration of the polling loop up to its delay.
PollAttempt ==
    /\ bpc = "poll"
    /\ LoopGuard(attempts)
    /\ attempts' = attempts + 1
    /\ calls' = Bump(calls, "getStatus")
    /\ \E st \in FileStates, ut \in UpdateTimes :
         LET m    == TryMarker(st)
             flow == AfterCatch(TryBlock(st))
             n1   == IF m = "none" THEN notes ELSE Bump(notes, m)
             o1   == Reported(outcome, m)
             m1   == IF m = "none" THEN lastMsg ELSE Message(m, ut)
         IN  /\ lastState' = st
             /\ sawFailed' = (sawFailed \/ st = "FAILED")
             /\ onlyProcessing' = (onlyProcessing /\ lastState \in {"none", "PROCESSING"})
             /\ IF flow = "return"
                  THEN /\ notes' = n1
                       /\ outcome' = o1
                       /\ msgUri' = uploadResult.uri
                       /\ lastMsg' = m1
                       /\ bpc' = "finally"
                  ELSE IF TimedOut(attempts')
                  THEN /\ notes' = Bump(n1, "timeout")
                       /\ outcome' = Reported(o1, "timeout")
                       /\ msgUri' = uploadResult.uri
                       /\ lastMsg' = Message("timeout", ut)
                       /\ bpc' = "catch"
                  ELSE /\ notes' = n1
                       /\ outcome' = o1
                       /\ msgUri' = IF m = "none" THEN msgUri ELSE uploadResult.uri
                       /\ lastMsg' = m1
                       /\ bpc' = "delay"
    /\ UNCHANGED <<source, notifyConfigured, hpc, handlerResponse, cleanupPath,
                   tempFile, fileSize, uploadUrl, putTarget, uploadResult>>
    /\ UNCHANGED <<mvars, nvars, dvars, lvars>>

\* await delay(FILE_POLLING_INTERVAL_MS), then the loop condition; a loop
\* that ends by its condition lets the function return without a throw.
PollDelay ==
    /\ bpc = "delay"
    /\ bpc' = IF LoopGuard(attempts) THEN "poll" ELSE "finally"
    /\ UNCHANGED <<source, notifyConfigured, hpc, handlerResponse, cleanupPath,
                   tempFile, fileSize, uploadUrl, putTarget, uploadResult, attempts,
                   onlyProcessing, lastState, sawFailed, outcome, calls, notes, msgUri, lastMsg>>
    /\ UNCHANGED <<mvars, nvars, dvars, lvars>>

\* catch (error) of the background task: the error notification.
BgCatch ==
    /\ bpc = "catch"
    /\ notes' = Bump(notes, "error")
    /\ lastMsg' = Message("error", "")
    /\ outcome' = Reported(outcome, "error")
    /\ bpc' = "finally"
    /\ UNCHANGED <<source, notifyConfigured, hpc, handlerResponse, cleanupPath,
                   tempFile, fileSize, uploadUrl, putTarget, uploadResult, attempts,
                   onlyProcessing, lastState, sawFailed, calls, msgUri>>
    /\ UNCHANGED <<mvars, nvars, dvars, lvars>>

\* finally: if (cleanupPath) await deleteFile(cleanupPath)
BgFinally ==
    /\ bpc = "finally"
    /\ tempFile' = IF cleanupPath THEN FALSE ELSE tempFile
    /\ bpc' = "done"
    /\ UNCHANGED <<source, notifyConfigured, hpc, handlerResponse, cleanupPath,
                   fileSize, uploadUrl, putTarget, uploadResult, attempts, onlyProcessing,
                   lastState, sawFailed, outcome, calls, notes, msgUri, lastMsg>>
    /\ UNCHANGED <<mvars, nvars, dvars, lvars>>


(***************************************************************************)
(* handleUnderstandMedia                                                   *)
(***************************************************************************)
Indexes == 1..Len(files)

\* The large-upload tool at rest, for the specification of the
\* understanding flow.
UQuiet ==
    /\ source = "path"
    /\ notifyConfigured = FALSE
    /\ hpc = "idle"
    /\ handlerResponse = "none"
    /\ bpc = "none"
    /\ cleanupPath = FALSE
    /\ tempFile = FALSE
    /\ fileSize = 0
    /\ uploadUrl = ""
    /\ putTarget = ""
    /\ uploadResult = NoFile
    /\ attempts = 0
    /\ onlyProcessing = TRUE
    /\ lastState = "none"
    /\ sawFailed = FALSE
    /\ outcome = "Pending"
    /\ calls = [k \in CallKinds |-> 0]
    /\ notes = [m \in Markers |-> 0]
    /\ msgUri = ""
    /\ lastMsg = NoMessage

ReqKinds == {"head", "download"}

MInitFor(fs) ==
    /\ files = fs
    /\ envelope = "none"
    /\ rpc = "call"
    /\ mapIdx = 1
    /\ fpc = [i \in 1..Len(fs) |-> "unmapped"]
    /\ headLen = [i \in 1..Len(fs) |-> NoLen]
    /\ mimeType = [i \in 1..Len(fs) |-> fs[i].mime_type]
    /\ fileSizeOf = [i \in 1..Len(fs) |-> NoLen]
    /\ failure = [i \in 1..Len(fs) |-> "none"]
    /\ tempOnDisk = [i \in 1..Len(fs) |-> FALSE]
    /\ cleanupPaths = {}
    /\ processedFiles = <<>>
    /\ videoCount = 0
    /\ reqs = [k \in ReqKinds |-> [i \in 1..Len(fs) |-> 0]]
    /\ genCalls = 0
    /\ result = "none"
    /\ deleted = {}

\* No understanding request, for the specification of the large-upload tool.
MQuiet == MInitFor(<<>>)

\* The refine of fileSourceSchema with the count of sources left out.
FileSourceValid_AnyCount(f) == ~(f.file_uri # "" /\ f.mime_type = "")

\* The refine of fileSourceSchema: exactly one of url / path / file_uri is
\* populated, and a file_uri comes with a mime_type.
FileSourceValid(f) ==
    /\ Cardinality({k \in {"url", "path", "file_uri"} : f[k] # ""}) = 1
    /\ ~(f.file_uri # "" /\ f.mime_type = "")

\* The branches of the if / else-if chain without the YouTube test.
Branch_NoYouTube(f) ==
    IF f.file_uri # "" /\ f.mime_type # "" THEN "file_uri"
    ELSE IF f.url # "" THEN "url"
    ELSE IF f.path # "" THEN "path"
    ELSE "invalid"

\* The branch of the map callback a file source takes: A (file_uri with
\* mime_type), B (url: YouTube or regular), C (path), D (invalid).
Branch(f) ==
    IF f.file_uri # "" /\ f.mime_type # "" THEN "file_uri"
    ELSE IF f.url # "" THEN (IF f.url = "youtube" THEN "youtube" ELSE "url")
    ELSE IF f.path # "" THEN "path"
    ELSE "invalid"

\* Pre-check: count of YouTube URLs and of video mime_type values.
PreVideoCount(fs) ==
    Cardinality({i \in 1..Len(fs) :
                   fs[i].url = "youtube" \/ IsVideo(fs[i].mime_type)})

\* The size check with >= in place of >.
TooLarge_Inclusive(n) == n >= MAX_FILE_SIZE_BYTES

\* The size check left out.
TooLarge_Off(n) == FALSE

\* if (headFileSize > MAX_FILE_SIZE_BYTES) / if (fileSize > MAX_FILE_SIZE_BYTES)
TooLarge(n) == n > MAX_FILE_SIZE_BYTES

\* The try block around axios.head: a Content-Length over the limit throws
\* the too-large error from inside the block.
HeadTryBlock(len) == IF len # NoLen /\ TooLarge(len) THEN "throw" ELSE "next"

\* catch (headError) { console.warn(...) }: it encloses the whole block;
\* execution continues with the download.
HeadCatch(t) == IF t = "throw" THEN "next" ELSE t

\* MIME validation and the video count of a url / path resolution:
\* "throw" (with the error) or "next", with the new videoCount.
MimeCheck(m, vc) ==
    IF m = "undefined" THEN [flow |-> "throw", vc |-> vc, why |-> "NoMime"]
    ELSE IF ~Supported(m)
      THEN [flow |-> "throw", vc |-> vc, why |-> "UnsupportedType"]
    ELSE IF IsVideo(m)
      THEN IF vc + 1 > 1
             THEN [flow |-> "throw", vc |-> vc + 1, why |-> "VideoCount"]
             ELSE [flow |-> "next", vc |-> vc + 1, why |-> "none"]
      ELSE [flow |-> "next", vc |-> vc, why |-> "none"]

\* Promise.allSettled in place of Promise.all, the results not inspected.
AwaitResolutions_Settled(st, nProcessed, nFiles) ==
    IF \E i \in DOMAIN st : st[i] \notin {"done", "failed"} THEN "pending"
    ELSE "proceed"

\* await Promise.all(processingPromises), then the validation of
\* processedFiles.length: Promise.all rejects with the first rejection and is
\* fulfilled once every promise is.
AwaitResolutions(st, nProcessed, nFiles) ==
    IF \E i \in DOMAIN st : st[i] = "failed" THEN "throw"
    ELSE IF \E i \in DOMAIN st : st[i] # "done" THEN "pending"
    ELSE IF nProcessed # nFiles \/ nProcessed = 0 THEN "throw"
    ELSE "proceed"

\* The catch clause of the handler rethrowing the error.
CatchClause_Rethrow(e) == "thrown"

\* catch (error) { ...; return { content: [{ type: 'text', text:
\* `Error understanding media: ${errorMessage}` }] } }
CatchClause(e) == "error"

\* The CallTool request handler around the tool handler: a returned value is
\* the response; a thrown error is rethrown as McpError.
Respond(res) == IF res = "thrown" THEN "McpError" ELSE "content"

\* The handler's own code runs ahead of the I/O callbacks of the
\* resolutions: synchronous code to its next await, and the continuation of
\* a settled await as a microtask.
HandlerTurn ==
    \/ rpc \in {"call", "start", "map", "catch", "finally"}
    \/ rpc = "await" /\ AwaitResolutions(fpc, Len(processedFiles), Len(files)) # "pending"

Fail(i, why) ==
    /\ fpc' = [fpc EXCEPT ![i] = "failed"]
    /\ failure' = [failure EXCEPT ![i] = why]

\* The CallTool request handler up to the call of the tool handler:
\* schema.safeParse(args), McpError(InvalidParams) when it fails.
CallTool ==
    /\ rpc = "call"
    /\ IF \A i \in Indexes : FileSourceValid(files[i])
         THEN /\ rpc' = "start"
              /\ envelope' = envelope
         ELSE /\ rpc' = "rejected"
              /\ envelope' = "McpError"
    /\ UNCHANGED <<files, mapIdx, fpc, headLen, mimeType, fileSizeOf, failure,
                   tempOnDisk, cleanupPaths, processedFiles, videoCount, reqs,
                   genCalls, result, deleted>>
    /\ UNCHANGED <<uvars, nvars, dvars, lvars>>

\* Entry of the try block: the video pre-check.
MStartRequest ==
    /\ rpc = "start"
    /\ rpc' = IF PreVideoCount(files) > 1 THEN "catch" ELSE "map"
    /\ videoCount' = 0
    /\ UNCHANGED <<files, envelope, mapIdx, fpc, headLen, mimeType, fileSizeOf,
                   failure, tempOnDisk, cleanupPaths, processedFiles, reqs,
                   genCalls, result, deleted>>
    /\ UNCHANGED <<uvars, nvars, dvars, lvars>>

\* files.map(async (fileSource, index) => ...): the callback of the next
\* file, up to its first await.
MMap ==
    /\ rpc = "map"
    /\ LET i == mapIdx
           f == files[i]
           b == Branch(f)
       IN  /\ mapIdx' = i + 1
           /\ rpc' = IF i = Len(files) THEN "await" ELSE "map"
           /\ CASE b = "file_uri" ->
                     /\ IF Supported(f.mime_type)
                          THEN /\ processedFiles' = Append(processedFiles,
                                     [index |-> i, type |-> "file_api", mime |-> f.mime_type])
                               /\ fpc' = [fpc EXCEPT ![i] = "done"]
                               /\ failure' = failure
                          ELSE /\ processedFiles' = processedFiles
                               /\ Fail(i, "UnsupportedType")
                     /\ reqs' = reqs
                [] b = "youtube" ->
                     /\ processedFiles' = Append(processedFiles,
                           [index |-> i, type |-> "youtube", mime |-> ""])
                     /\ fpc' = [fpc EXCEPT ![i] = "done"]
                     /\ UNCHANGED <<reqs, failure>>
                [] b = "url" ->
                     /\ reqs' = [reqs EXCEPT !["head"][i] = @ + 1]
                     /\ fpc' = [fpc EXCEPT ![i] = "head"]
                     /\ UNCHANGED <<processedFiles, failure>>
                [] b = "path" ->
                     /\ fpc' = [fpc EXCEPT ![i] = "access"]
                     /\ UNCHANGED <<processedFiles, reqs, failure>>
                [] OTHER ->
                     /\ Fail(i, "InvalidSource")
                     /\ UNCHANGED <<processedFiles, reqs>>
    /\ UNCHANGED <<files, envelope, headLen, mimeType, fileSizeOf, tempOnDisk,
                   cleanupPaths, videoCount, genCalls, result, deleted>>
    /\ UNCHANGED <<uvars, nvars, dvars, lvars>>

\* The HEAD request returns; the download request follows.
MHeadReturn(i) ==
    /\ ~HandlerTurn
    /\ fpc[i] = "head"
    /\ \E len \in HeadAnswers :
         /\ headLen' = [headLen EXCEPT ![i] = len]
         /\ IF HeadCatch(HeadTryBlock(len)) = "throw"
              THEN /\ Fail(i, "SizeLimitExceeded")
                   /\ reqs' = reqs
              ELSE /\ fpc' = [fpc EXCEPT ![i] = "download"]
                   /\ failure' = failure
                   /\ reqs' = [reqs EXCEPT !["download"][i] = @ + 1]
    /\ UNCHANGED <<files, envelope, rpc, mapIdx, mimeType, fileSizeOf, tempOnDisk,
                   cleanupPaths, processedFiles, videoCount, genCalls, result, deleted>>
    /\ UNCHANGED <<uvars, nvars, dvars, lvars>>

\* Every resolved local path pushed to cleanupPaths.
MarkForCleanup_Always(b) == TRUE

\* cleanupPaths.push(localFilePath): the statement stands in the url branch,
\* after downloadFile; the path branch has no such statement.
MarkForCleanup(b) == b = "url"

\* downloadFile returns: the path is marked for cleanup, the MIME type is
\* determined and validated, fs.stat follows. A failed download removes its
\* own partial file and throws.
MDownloadReturn(i) ==
    /\ ~HandlerTurn
    /\ fpc[i] = "download"
    /\ \E ok \in BOOLEAN, m \in DetectedMimes :
         IF ~ok
           THEN /\ Fail(i, "Download")
                /\ UNCHANGED <<tempOnDisk, cleanupPaths, mimeType, videoCount>>
           ELSE LET c == MimeCheck(m, videoCount)
                IN  /\ tempOnDisk' = [tempOnDisk EXCEPT ![i] = TRUE]
                    /\ cleanupPaths' = IF MarkForCleanup("url")
                                         THEN cleanupPaths \cup {i}
                                         ELSE cleanupPaths
                    /\ videoCount' = c.vc
                    /\ IF c.flow = "throw"
                         THEN /\ Fail(i, c.why)
                              /\ mimeType' = mimeType
                         ELSE /\ fpc' = [fpc EXCEPT ![i] = "stat"]
                              /\ failure' = failure
                              /\ mimeType' = [mimeType EXCEPT ![i] = m]
    /\ UNCHANGED <<files, envelope, rpc, mapIdx, headLen, fileSizeOf,
                   processedFiles, reqs, genCalls, result, deleted>>
    /\ UNCHANGED <<uvars, nvars, dvars, lvars>>

\* fs.access of a local path returns: MIME lookup and validation, fs.stat
\* follows.
MAccessReturn(i) ==
    /\ ~HandlerTurn
    /\ fpc[i] = "access"
    /\ \E ok \in BOOLEAN, m \in DetectedMimes :
         IF ~ok
           THEN /\ Fail(i, "Access")
                /\ UNCHANGED <<mimeType, videoCount, cleanupPaths>>
           ELSE LET c == MimeCheck(m, videoCount)
                IN  /\ videoCount' = c.vc
                    /\ cleanupPaths' = IF MarkForCleanup("path")
                                         THEN cleanupPaths \cup {i}
                                         ELSE cleanupPaths
                    /\ IF c.flow = "throw"
                         THEN /\ Fail(i, c.why)
                              /\ mimeType' = mimeType
                         ELSE /\ fpc' = [fpc EXCEPT ![i] = "stat"]
                              /\ failure' = failure
                              /\ mimeType' = [mimeType EXCEPT ![i] = m]
    /\ UNCHANGED <<files, envelope, rpc, mapIdx, headLen, fileSizeOf, tempOnDisk,
                   processedFiles, reqs, genCalls, result, deleted>>
    /\ UNCHANGED <<uvars, nvars, dvars, lvars>>

\* fs.stat returns: the empty-file and size checks, fs.readFile follows.
MStatReturn(i) ==
    /\ ~HandlerTurn
    /\ fpc[i] = "stat"
    /\ \E sz \in MediaSizes :
         /\ fileSizeOf' = [fileSizeOf EXCEPT ![i] = sz]
         /\ IF sz = 0 THEN Fail(i, "Empty")
            ELSE IF TooLarge(sz) THEN Fail(i, "SizeLimitExceeded")
            ELSE /\ fpc' = [fpc EXCEPT ![i] = "read"]
                 /\ failure' = failure
    /\ UNCHANGED <<files, envelope, rpc, mapIdx, headLen, mimeType, tempOnDisk,
                   cleanupPaths, processedFiles, videoCount, reqs, genCalls, result, deleted>>
    /\ UNCHANGED <<uvars, nvars, dvars, lvars>>

\* fs.readFile returns: the inline entry is pushed to processedFiles.
MReadReturn(i) ==
    /\ ~HandlerTurn
    /\ fpc[i] = "read"
    /\ \E ok \in BOOLEAN :
         IF ok
           THEN /\ processedFiles' = Append(processedFiles,
                      [index |-> i, type |-> "inline", mime |-> mimeType[i]])
                /\ fpc' = [fpc EXCEPT ![i] = "done"]
                /\ failure' = failure
           ELSE /\ processedFiles' = processedFiles
                /\ Fail(i, "Read")
    /\ UNCHANGED <<files, envelope, rpc, mapIdx, headLen, mimeType, fileSizeOf,
                   tempOnDisk, cleanupPaths, videoCount, reqs, genCalls, result, deleted>>
    /\ UNCHANGED <<uvars, nvars, dvars, lvars>>

\* The await of Promise.all settles: either the catch clause is entered or
\* the generateContent request is posted.
MAwait ==
    /\ rpc = "await"
    /\ LET a == AwaitResolutions(fpc, Len(processedFiles), Len(files))
       IN  /\ a # "pending"
           /\ IF a = "proceed"
                THEN /\ genCalls' = genCalls + 1
                     /\ rpc' = "generate"
                ELSE /\ genCalls' = genCalls
                     /\ rpc' = "catch"
    /\ UNCHANGED <<files, envelope, mapIdx, fpc, headLen, mimeType, fileSizeOf,
                   failure, tempOnDisk, cleanupPaths, processedFiles, videoCount,
                   reqs, result, deleted>>
    /\ UNCHANGED <<uvars, nvars, dvars, lvars>>

\* The generateContent request returns; every failure of it goes through
\* the catch clause.
MGenerateReturn ==
    /\ rpc = "generate"
    /\ \E r \in {"text", "empty", "apierror", "invalid", "httperror"} :
         result' = IF r \in {"text", "empty"} THEN "text" ELSE CatchClause(r)
    /\ rpc' = "finally"
    /\ UNCHANGED <<files, envelope, mapIdx, fpc, headLen, mimeType, fileSizeOf,
                   failure, tempOnDisk, cleanupPaths, processedFiles, videoCount,
                   reqs, genCalls, deleted>>
    /\ UNCHANGED <<uvars, nvars, dvars, lvars>>

\* catch (error) of the handler, entered from the pre-check or the await.
MCatch ==
    /\ rpc = "catch"
    /\ result' = CatchClause("resolution")
    /\ rpc' = "finally"
    /\ UNCHANGED <<files, envelope, mapIdx, fpc, headLen, mimeType, fileSizeOf,
                   failure, tempOnDisk, cleanupPaths, processedFiles, videoCount,
                   reqs, genCalls, deleted>>
    /\ UNCHANGED <<uvars, nvars, dvars, lvars>>

\* finally: deleteFile for every path cleanupPaths holds at this moment; the
\* handler is left and the CallTool request answered.
MFinally ==
    /\ rpc = "finally"
    /\ tempOnDisk' = [i \in DOMAIN tempOnDisk |->
                        IF i \in cleanupPaths THEN FALSE ELSE tempOnDisk[i]]
    /\ deleted' = deleted \cup cleanupPaths
    /\ envelope' = Respond(result)
    /\ rpc' = "done"
    /\ UNCHANGED <<files, mapIdx, fpc, headLen, mimeType, fileSizeOf, failure,
                   cleanupPaths, processedFiles, videoCount, reqs, genCalls, result>>
    /\ UNCHANGED <<uvars, nvars, dvars, lvars>>

MNext ==
    \/ CallTool
    \/ MStartRequest
    \/ MMap
    \/ \E i \in Indexes : MHeadReturn(i)
    \/ \E i \in Indexes : MDownloadReturn(i)
    \/ \E i \in Indexes : MAccessReturn(i)
    \/ \E i \in Indexes : MStatReturn(i)
    \/ \E i \in Indexes : MReadReturn(i)
    \/ MAwait
    \/ MGenerateReturn
    \/ MCatch
    \/ MFinally

(***************************************************************************)
(* Notification utilities: sendOneBotNotification, sendTelegramNotification *)
(***************************************************************************)
Channels == {"OneBot", "Telegram"}

\* Values of the settings: unset, or set; ONEBOT_MESSAGE_TYPE is taken from
\* the environment as it is, whatever its text.
Configs ==
    [ONEBOT_HTTP_URL : {"", "http://bot/"},
     ONEBOT_MESSAGE_TYPE : {"", "private", "group", "channel"},
     ONEBOT_TARGET_ID : {"", "42"},
     TELEGRAM_BOT_TOKEN : {"", "token"},
     TELEGRAM_CHAT_ID : {"", "7"}]

NoConfig ==
    [ONEBOT_HTTP_URL |-> "", ONEBOT_MESSAGE_TYPE |-> "", ONEBOT_TARGET_ID |-> "",
     TELEGRAM_BOT_TOKEN |-> "", TELEGRAM_CHAT_ID |-> ""]

\* !!(ONEBOT_HTTP_URL && ONEBOT_MESSAGE_TYPE && ONEBOT_TARGET_ID)
isOneBotConfigured(c) ==
    c.ONEBOT_HTTP_URL # "" /\ c.ONEBOT_MESSAGE_TYPE # "" /\ c.ONEBOT_TARGET_ID # ""

\* !!(TELEGRAM_BOT_TOKEN && TELEGRAM_CHAT_ID)
isTelegramConfigured(c) == c.TELEGRAM_BOT_TOKEN # "" /\ c.TELEGRAM_CHAT_ID # ""

isNotificationConfigured(c) == isOneBotConfigured(c) \/ isTelegramConfigured(c)

\* The names getConfiguredNotifiers joins with '/'.
getConfiguredNotifiers(c) ==
    {ch \in Channels : \/ ch = "OneBot" /\ isOneBotConfigured(c)
                       \/ ch = "Telegram" /\ isTelegramConfigured(c)}

\* The two early returns of sendOneBotNotification: "skip" (a setting is
\* missing), "invalid" (the message type is neither 'private' nor 'group'),
\* or "post".
OneBotGuard(c) ==
    IF c.ONEBOT_HTTP_URL = "" \/ c.ONEBOT_MESSAGE_TYPE = "" \/ c.ONEBOT_TARGET_ID = ""
      THEN "skip"
    ELSE IF c.ONEBOT_MESSAGE_TYPE # "private" /\ c.ONEBOT_MESSAGE_TYPE # "group"
      THEN "invalid"
    ELSE "post"

\* The early return of sendTelegramNotification.
TelegramGuard(c) ==
    IF c.TELEGRAM_BOT_TOKEN = "" \/ c.TELEGRAM_CHAT_ID = "" THEN "skip" ELSE "send"

\* action of the request: send_private_msg or send_group_msg
OneBotAction(c) ==
    IF c.ONEBOT_MESSAGE_TYPE = "private" THEN "send_private_msg" ELSE "send_group_msg"

\* sendOneBotNotification without its try / catch.
SendCatch_None(ok) == IF ok THEN "return" ELSE "throw"

\* try { await <request> } catch (error) { console.error(...) }: a send
\* function returns whether or not its request failed.
SendCatch(ok) == "return"

NInitFor(c) ==
    /\ cfg = c
    /\ npc = "idle"
    /\ nCalls = 0
    /\ attempted = [ch \in Channels |-> 0]
    /\ failed = [ch \in Channels |-> 0]
    /\ sentAction = "none"
    /\ escaped = FALSE

\* No notification activity, for the specifications of the two tools.
NQuiet == NInitFor(NoConfig)

\* The notification utilities under every combination of settings.
InitNotify ==
    \E c \in Configs : NInitFor(c) /\ UQuiet /\ MQuiet /\ DQuiet /\ LQuiet

\* A caller reaches await sendOneBotNotification(message).
Notify ==
    /\ npc \in {"idle", "returned"}
    /\ ~escaped
    /\ nCalls < MaxNotifies
    /\ nCalls' = nCalls + 1
    /\ npc' = "onebot"
    /\ UNCHANGED <<cfg, attempted, failed, sentAction, escaped>>
    /\ UNCHANGED <<uvars, mvars, dvars, lvars>>

\* sendOneBotNotification up to its request.
SendOneBot ==
    /\ npc = "onebot"
    /\ IF OneBotGuard(cfg) = "post"
         THEN /\ attempted' = Bump(attempted, "OneBot")
              /\ sentAction' = OneBotAction(cfg)
              /\ npc' = "onebot_post"
         ELSE /\ UNCHANGED <<attempted, sentAction>>
              /\ npc' = "telegram"
    /\ UNCHANGED <<cfg, nCalls, failed, escaped>>
    /\ UNCHANGED <<uvars, mvars, dvars, lvars>>

\* axios.post of sendOneBotNotification returns or fails.
OneBotReturn ==
    /\ npc = "onebot_post"
    /\ \E ok \in BOOLEAN :
         /\ failed' = IF ok THEN failed ELSE Bump(failed, "OneBot")
         /\ IF SendCatch(ok) = "return"
              THEN npc' = "telegram" /\ escaped' = escaped
              ELSE npc' = "returned" /\ escaped' = TRUE
    /\ UNCHANGED <<cfg, nCalls, attempted, sentAction>>
    /\ UNCHANGED <<uvars, mvars, dvars, lvars>>

\* sendTelegramNotification up to its request.
SendTelegram ==
    /\ npc = "telegram"
    /\ IF TelegramGuard(cfg) = "send"
         THEN /\ attempted' = Bump(attempted, "Telegram")
              /\ npc' = "telegram_send"
         ELSE /\ attempted' = attempted
              /\ npc' = "returned"
    /\ UNCHANGED <<cfg, nCalls, failed, sentAction, escaped>>
    /\ UNCHANGED <<uvars, mvars, dvars, lvars>>

\* bot.sendMessage of sendTelegramNotification returns or fails.
TelegramReturn ==
    /\ npc = "telegram_send"
    /\ \E ok \in BOOLEAN :
         /\ failed' = IF ok THEN failed ELSE Bump(failed, "Telegram")
         /\ escaped' = (SendCatch(ok) # "return")
    /\ npc' = "returned"
    /\ UNCHANGED <<cfg, nCalls, attempted, sentAction>>
    /\ UNCHANGED <<uvars, mvars, dvars, lvars>>

NNext ==
    \/ Notify
    \/ SendOneBot
    \/ OneBotReturn
    \/ SendTelegram
    \/ TelegramReturn

SpecNotify == InitNotify /\ [][NNext]_vars

\* deleteFile called on paths that exist and on paths that do not.
InitDelete ==
    \E d \in SUBSET TempPaths :
        DInitFor(d) /\ UQuiet /\ MQuiet /\ NQuiet /\ LQuiet

SpecDelete == InitDelete /\ [][DNext]_vars

\* getEffectiveMediaSizeLimit under every configured text.
InitLimit ==
    \E raw \in LimitTexts :
        LInitFor(raw) /\ UQuiet /\ MQuiet /\ NQuiet /\ DQuiet

SpecLimit == InitLimit /\ [][LNext]_vars

\* One gemini_understand_media request of 1..MaxFiles file sources; the
\* upload tool at rest.
InitUnderstand ==
    \E n \in 1..MaxFiles : \E fs \in [1..n -> FileSources] :
        MInitFor(fs) /\ UQuiet /\ NQuiet /\ DQuiet /\ LQuiet

SpecUnderstand == InitUnderstand /\ [][MNext]_vars

Init == UInit /\ MQuiet /\ NQuiet /\ DQuiet /\ LQuiet

Next ==
    \/ HandlerCall
    \/ HandlerReturn
    \/ BgDownload
    \/ BgAccess
    \/ BgInspect
    \/ BeginUpload
    \/ SendBytes
    \/ PollAttempt
    \/ PollDelay
    \/ BgCatch
    \/ BgFinally

Spec == Init /\ [][Next]_vars

\* Every step of the background task is an awaited call that returns or
\* fails, or synchronous code: an enabled step is eventually taken.
FairSpec == Spec /\ WF_vars(Next)

(***************************************************************************)
(* Properties of the large-upload task                                     *)
(***************************************************************************)
\* Dispatcher invocations that report a terminal outcome.
TerminalNotes ==
    notes["success"] + notes["failure"] + notes["timeout"] + notes["error"]

\* C1: once getStatus has answered FAILED, the dispatcher has been invoked
\* with the failure marker exactly once: never zero times, never twice.
C1_FailureNotifiedExactlyOnce == sawFailed => notes["failure"] = 1

\* C2: the reported outcome is absorbing: a task that has reported
\* Succeeded, Failed or TimedOut never reports a different outcome later.
C2_OutcomeAbsorbing == [][outcome # "Pending" => outcome' = outcome]_vars

\* C3: after getStatus has answered ACTIVE or FAILED, no further getStatus
\* call is made for the object.
C3_NoPollAfterTerminalState ==
    [][(sawFailed \/ lastState = "ACTIVE")
          => calls'["getStatus"] = calls["getStatus"]]_vars

\* C5: when every getStatus answer up to the attempt ceiling was PROCESSING,
\* the finished task has dispatched exactly one terminal notification, the
\* one with the timeout marker.
C5_AllProcessingOneTimeoutNote ==
    (bpc = "done" /\ attempts = MAX_FILE_POLLING_ATTEMPTS
       /\ onlyProcessing /\ lastState = "PROCESSING")
      => (notes["timeout"] = 1 /\ TerminalNotes = 1)

\* C6: a local-path upload whose status answers were PROCESSING, PROCESSING,
\* ACTIVE has called beginUpload once, sendBytes once, getStatus three times,
\* has left the polling loop, and has dispatched exactly one notification:
\* the success one, carrying the URI the upload returned.
C6_ProcessingProcessingActive ==
    (source = "path" /\ attempts = 3 /\ onlyProcessing /\ lastState = "ACTIVE")
      => /\ bpc \in {"finally", "done"}
         /\ calls = [k \in CallKinds |->
                       CASE k = "getStatus" -> 3 [] k = "download" -> 0 [] OTHER -> 1]
         /\ notes = [m \in Markers |-> IF m = "success" THEN 1 ELSE 0]
         /\ msgUri = RemoteUri
         /\ outcome = "Succeeded"

C6_Witness ==
    /\ source = "path" /\ attempts = 3 /\ onlyProcessing /\ lastState = "ACTIVE"
    /\ bpc = "done" /\ notes["success"] = 1

\* C9: nothing of the background task (download, upload, status poll,
\* notification) happens before the handler has returned its response.
C9_HandlerReturnsFirst ==
    (\/ bpc \notin {"none", "queued"}
     \/ \E k \in CallKinds : calls[k] > 0
     \/ \E m \in Markers : notes[m] > 0)
      => (hpc = "returned" /\ handlerResponse = "accepted")

C9_Witness ==
    /\ hpc = "returned" /\ handlerResponse = "accepted"
    /\ bpc = "inspect" /\ calls["download"] = 1 /\ notes["info"] = 1

\* C10: a started background task makes at most MAX_FILE_POLLING_ATTEMPTS
\* getStatus calls and eventually finishes, having dispatched at least one
\* terminal notification.
C10_TaskTerminatesNotified ==
    /\ [](calls["getStatus"] <= MAX_FILE_POLLING_ATTEMPTS)
    /\ [](bpc = "done" => TerminalNotes >= 1)
    /\ (bpc = "queued") ~> (bpc = "done")

C10_Witness ==
    /\ bpc = "done" /\ calls["getStatus"] = MAX_FILE_POLLING_ATTEMPTS
    /\ notes["timeout"] = 1

(***************************************************************************)
(* Properties of the understanding flow                                    *)
(***************************************************************************)
\* C4: a URL whose HEAD answer carries a Content-Length over the limit fails
\* at once: no download request is issued for it and no temp file is written.
C4_OversizedHeadFailsFast ==
    \A i \in Indexes :
        (headLen[i] # NoLen /\ TooLarge(headLen[i]))
          => (fpc[i] = "failed" /\ reqs["download"][i] = 0 /\ ~tempOnDisk[i])

\* C7: when a resolution of the request has failed and every resolution has
\* finished, no downloaded temp file of the request is left on disk.
C7_TempFilesRemoved ==
    (/\ rpc = "done"
     /\ \A i \in Indexes : fpc[i] \in {"done", "failed"}
     /\ \E i \in Indexes : fpc[i] = "failed")
      => \A i \in Indexes : ~tempOnDisk[i]

\* C8: the generation call is issued only once every resolution has
\* completed successfully; a request with a failed resolution issues no
\* generation call and returns the error text.
C8_GenerateOnlyAfterAllResolved ==
    /\ genCalls > 0 => \A i \in Indexes : fpc[i] = "done"
    /\ (\E i \in Indexes : fpc[i] = "failed")
         => (genCalls = 0 /\ (rpc = "done" => result = "error"))

C8_Witness ==
    /\ rpc = "done" /\ result = "error" /\ genCalls = 0
    /\ \E i, j \in Indexes :
         fpc[i] = "failed" /\ fpc[j] = "done" /\ Branch(files[j]) = "url"

(***************************************************************************)
(* Claims about the upload protocol of the large-upload tool               *)
(***************************************************************************)
\* C11: within one upload task the remote calls happen in the order
\* beginUpload, sendBytes, getStatus: the data request is issued only after
\* a start request that returned an upload URL and is addressed to exactly
\* that URL; a start request that returns no URL fails the upload and no
\* data request is ever issued; a failed data request fails the upload and
\* the status is never polled.
C11_UploadCallOrder ==
    /\ [](/\ calls["sendBytes"] > 0 =>
               /\ calls["beginUpload"] > 0
               /\ uploadUrl # ""
               /\ putTarget = uploadUrl
          /\ calls["getStatus"] > 0 =>
               /\ calls["sendBytes"] > 0
               /\ uploadResult # NoFile
          /\ (calls["beginUpload"] > 0 /\ uploadUrl = "") =>
               /\ bpc \in {"catch", "finally", "done"}
               /\ calls["sendBytes"] = 0
          /\ (calls["sendBytes"] > 0 /\ uploadResult = NoFile) =>
               /\ bpc \in {"catch", "finally", "done"}
               /\ calls["getStatus"] = 0)
    /\ [][/\ calls'["beginUpload"] > calls["beginUpload"] =>
               calls["sendBytes"] = 0 /\ calls["getStatus"] = 0
          /\ calls'["sendBytes"] > calls["sendBytes"] =>
               calls["getStatus"] = 0]_vars

C11_Witness ==
    /\ calls["beginUpload"] = 1
    /\ calls["sendBytes"] = 1
    /\ calls["getStatus"] > 0
    /\ putTarget = "session"

\* C12 as stated: the start request is issued only for a file whose size is
\* strictly greater than the effective inline threshold.
C12_UploadOnlyAboveThreshold ==
    calls["beginUpload"] > 0 => fileSize > USER_LIMIT_BYTES

\* C12, amended: the start request is issued only for a non-empty file; a
\* size at or below the effective inline threshold only logs a warning and
\* the file is uploaded all the same.
C12_UploadOnlyNonEmpty ==
    calls["beginUpload"] > 0 => fileSize > 0

C12_Witness ==
    /\ calls["beginUpload"] = 1
    /\ fileSize = USER_LIMIT_BYTES
    /\ uploadResult # NoFile

\* C15: a getStatus call that fails before the last attempt does not end the
\* task, the loop goes on to the next attempt; an ACTIVE answer still ends
\* the task with success; a timeout is reported only when every attempt has
\* been used and no terminal state (ACTIVE, FAILED) was ever answered.
C15_ErrorsRetriedTimeoutOnlyWithoutTerminal ==
    /\ (lastState = "ERROR" /\ attempts < MAX_FILE_POLLING_ATTEMPTS) =>
            bpc \in {"delay", "poll"}
    /\ lastState = "ACTIVE" => outcome = "Succeeded"
    /\ notes["timeout"] > 0 =>
            /\ attempts = MAX_FILE_POLLING_ATTEMPTS
            /\ lastState # "ACTIVE"
            /\ ~sawFailed

\* C16: one upload task issues the start request at most once and the data
\* request at most once; a failed upload is not tried again: the status is
\* never polled and the task ends with the error notification.
UploadFailed ==
    \/ calls["beginUpload"] = 1 /\ uploadUrl = "" /\ bpc # "begin"
    \/ uploadUrl # "" /\ uploadResult = NoFile /\ bpc # "send"

C16_UploadCallsAtMostOnce ==
    /\ calls["beginUpload"] <= 1
    /\ calls["sendBytes"] <= 1
    /\ UploadFailed =>
         /\ bpc \in {"catch", "finally", "done"}
         /\ calls["getStatus"] = 0
         /\ bpc \in {"finally", "done"} =>
              notes["error"] = 1 /\ outcome = "Failed"

C16_Witness ==
    /\ bpc = "done"
    /\ calls["beginUpload"] = 1
    /\ calls["sendBytes"] = 1
    /\ uploadResult = NoFile
    /\ outcome = "Failed"

(***************************************************************************)
(* Claims about the resolution of file sources in the understanding flow   *)
(***************************************************************************)
\* No call of the upload protocol has been made.
NoRemoteStoreCall == calls = [k \in CallKinds |-> 0]

\* processedFiles holds an entry of one of the given types for file i.
Resolved(i, types) ==
    \E k \in 1..Len(processedFiles) :
        processedFiles[k].index = i /\ processedFiles[k].type \in types

\* C13: a url or path source whose size (stats.size) is over
\* MAX_FILE_SIZE_BYTES fails with the too-large error that points to the
\* large-upload tool; the request makes no upload call and no generation
\* call, and ends with the error text.
C13_OversizedSourceRejected ==
    \A i \in Indexes :
        fileSizeOf[i] > MAX_FILE_SIZE_BYTES =>
            /\ fpc[i] = "failed"
            /\ failure[i] = "SizeLimitExceeded"
            /\ genCalls = 0
            /\ NoRemoteStoreCall
            /\ rpc = "done" => result = "error"

C13_Witness ==
    /\ rpc = "done"
    /\ genCalls = 0
    /\ \E i \in Indexes :
         /\ fileSizeOf[i] = MAX_FILE_SIZE_BYTES + 1
         /\ failure[i] = "SizeLimitExceeded"

\* The resolution of file i goes on to the inline read and, once the file
\* has been read, has pushed the inline entry with the MIME type.
InlinePlan(i) ==
    /\ fpc[i] \in {"read", "done"} \/ failure[i] = "Read"
    /\ fpc[i] = "done" =>
         \E k \in 1..Len(processedFiles) :
             processedFiles[k] = [index |-> i, type |-> "inline", mime |-> mimeType[i]]
    /\ NoRemoteStoreCall

\* C14 as stated: a url or path source with a supported MIME type and a size
\* s, 0 <= s <= MAX_FILE_SIZE_BYTES, is resolved to an inline entry, with no
\* remote-store call.
C14_InRangeSourceInline ==
    \A i \in Indexes :
        (/\ files[i].url = "web" \/ files[i].path # ""
         /\ Supported(mimeType[i])
         /\ 0 <= fileSizeOf[i] /\ fileSizeOf[i] <= MAX_FILE_SIZE_BYTES)
          => InlinePlan(i)

\* C14, amended: the same for 0 < s <= MAX_FILE_SIZE_BYTES; an empty file
\* (s = 0) is rejected.
C14_NonEmptyInRangeSourceInline ==
    \A i \in Indexes :
        /\ (/\ files[i].url = "web" \/ files[i].path # ""
            /\ Supported(mimeType[i])
            /\ 0 < fileSizeOf[i] /\ fileSizeOf[i] <= MAX_FILE_SIZE_BYTES)
             => InlinePlan(i)
        /\ fileSizeOf[i] = 0 => fpc[i] = "failed" /\ failure[i] = "Empty"

C14_Witness ==
    \E i \in Indexes :
        /\ files[i].url = "web"
        /\ fileSizeOf[i] = MAX_FILE_SIZE_BYTES
        /\ fpc[i] = "done"
        /\ Resolved(i, {"inline"})

\* C17: a YouTube URL, or a file_uri with its mime_type, is resolved without
\* any access to bytes: no HEAD request, no download, no fs.stat, no temp
\* file, no upload call; the source becomes a direct reference as soon as
\* the map callback has run (a file_uri of a supported MIME type).
C17_DirectReferenceNoByteAccess ==
    \A i \in Indexes :
        (/\ FileSourceValid(files[i])
         /\ files[i].url = "youtube" \/ files[i].file_uri # "")
          => /\ reqs["head"][i] = 0
             /\ reqs["download"][i] = 0
             /\ fileSizeOf[i] = NoLen
             /\ ~tempOnDisk[i]
             /\ i \notin cleanupPaths
             /\ fpc[i] \in {"unmapped", "done", "failed"}
             /\ NoRemoteStoreCall
             /\ (mapIdx > i /\ (files[i].url = "youtube" \/ Supported(files[i].mime_type)))
                  => fpc[i] = "done" /\ Resolved(i, {"youtube", "file_api"})

C17_Witness ==
    /\ rpc = "done"
    /\ result = "text"
    /\ \E i, j \in Indexes :
         /\ files[i].url = "youtube" /\ Resolved(i, {"youtube"})
         /\ files[j].file_uri # "" /\ Resolved(j, {"file_api"})

\* C20 as stated: every failing tool call is answered with the normal
\* response envelope (content with the error text), never with a protocol
\* error.
C20_EveryFailureInEnvelope ==
    (rpc \in {"done", "rejected"} /\ result # "text") => envelope = "content"

\* C20, amended: every failure inside the tool handler is answered with the
\* normal response envelope; a call whose arguments fail the schema
\* validation, and only such a call, is answered with McpError.
C20_HandlerFailuresInEnvelope ==
    /\ (rpc = "done" /\ result # "text") => envelope = "content"
    /\ envelope = "McpError" <=> rpc = "rejected"
    /\ rpc = "rejected" <=> (rpc # "call" /\ \E i \in Indexes : ~FileSourceValid(files[i]))

C20_Witness ==
    /\ rpc = "done"
    /\ result = "error"
    /\ envelope = "content"
    /\ \E i \in Indexes : failure[i] \in {"SizeLimitExceeded", "Download"}

(***************************************************************************)
(* Claims about the notification utilities                                 *)
(***************************************************************************)
\* C18: whatever requests of a notification fail, each channel whose send
\* function gets past its guards is attempted in every notification, the
\* failure of the OneBot request never keeps the Telegram request from being
\* made, and no error reaches the caller.
C18_FailuresIsolated ==
    /\ ~escaped
    /\ npc = "returned" =>
         /\ OneBotGuard(cfg) = "post" => attempted["OneBot"] = nCalls
         /\ TelegramGuard(cfg) = "send" => attempted["Telegram"] = nCalls
    /\ \A ch \in Channels : failed[ch] <= attempted[ch]

C18_Witness ==
    /\ npc = "returned"
    /\ nCalls = MaxNotifies
    /\ failed["OneBot"] = nCalls
    /\ failed["Telegram"] >= 1
    /\ attempted["Telegram"] = nCalls

\* C19: every notification makes a delivery attempt on each channel that
\* isNotificationConfigured / getConfiguredNotifiers count as configured,
\* and at least one attempt whenever isNotificationConfigured is true.
C19_ConfiguredChannelsAttempted ==
    npc = "returned" =>
        /\ \A ch \in getConfiguredNotifiers(cfg) : attempted[ch] = nCalls
        /\ isNotificationConfigured(cfg) =>
             attempted["OneBot"] + attempted["Telegram"] >= nCalls

(***************************************************************************)
(* Claims about validation, cleanup and the request sent to the model      *)
(***************************************************************************)
\* The source fields (url, path, file_uri) file source f populates.
Populated(f) == {k \in {"url", "path", "file_uri"} : f[k] # ""}

C22_TempFileDeletedAtFinish ==
    (rpc = "done" /\ \A i \in Indexes : fpc[i] \in {"done", "failed"})
      => \A i \in Indexes : ~tempOnDisk[i]

(***************************************************************************)
(* Claims about deleteFile and getEffectiveMediaSizeLimit                  *)
(***************************************************************************)
\* C23: deleteFile never throws; called on a path that does not exist it
\* returns as it does after deleting an existing file, and the path is
\* absent after either, so any number of calls in a row leave the path
\* absent and produce no error.
C23_DeleteNeverRaises ==
    /\ ~delRaised
    /\ \A path \in TempPaths :
         /\ delLog[path] \in {"deleted", "notfound"} => path \notin disk
         /\ delLog[path] = "error" => path \in disk
         /\ delCalls[path] > 0 <=> delLog[path] # "none"

C23_Witness ==
    \E path, other \in TempPaths :
        /\ delCalls[path] = MaxDeletes
        /\ delLog[path] = "notfound"
        /\ delLog[other] = "deleted"
        /\ disk = {}

\* C25: getEffectiveMediaSizeLimit returns limitBytes = min(n * 1048576,
\* 20 * 1048576), n being the configured number of megabytes when the text
\* parses to a positive integer and 20 otherwise; so 0 < limitBytes <= 20 MiB.
C25_LimitClamped ==
    lpc = "returned" =>
        LET parsed == parseInt(rawLimit)
            n      == IF rawLimit # <<>> /\ ~parsed.nan /\ parsed.val > 0
                        THEN parsed.val ELSE 20
        IN  /\ limitResult.limitBytes =
                 (IF n <= 20 THEN n * 1048576 ELSE 20 * 1048576)
            /\ 0 < limitResult.limitBytes
            /\ limitResult.limitBytes <= 20971520
            /\ limitResult.limitMB * 1048576 = limitResult.limitBytes

C25_Witness ==
    /\ lpc = "returned"
    /\ rawLimit = <<"2", "1">>
    /\ limitResult.limitBytes = 20971520

\* C24 as stated: each of the three terminal notifications (success, failure,
\* timeout) embeds the same four fields: the source description, the remote
\* URI, the MIME type and a human-readable time, "N/A" when the remote
\* supplied none.
C24_TerminalMessagesSameFields ==
    lastMsg.marker \in {"success", "failure", "timeout"} =>
        /\ lastMsg.fields = {"source", "uri", "mime", "time"}
        /\ lastMsg.time \in {"N/A", "localized"}

\* C24, amended: the success and the failure notification embed the source
\* description, the remote URI, the MIME type and a human-readable time,
\* which is "N/A" exactly when the status answer carried no update time; the
\* timeout notification embeds the first three and no time at all.
C24_TerminalMessageFields ==
    /\ lastMsg.marker \in {"success", "failure"} =>
        /\ lastMsg.fields = {"source", "uri", "mime", "time"}
        /\ lastMsg.time = (IF lastMsg.raw = "" THEN "N/A" ELSE "localized")
    /\ lastMsg.marker = "timeout" =>
        /\ lastMsg.fields = {"source", "uri", "mime"}
        /\ lastMsg.time = ""

C24_Witness ==
    /\ bpc = "done"
    /\ lastMsg.marker = "success"
    /\ lastMsg.raw # ""
    /\ lastMsg.time = "localized"

\* requestParts after the text part: ...processedFiles.map(fileInfo => ...),
\* one part per entry, in the order of the entries; each part is named here
\* by the position in files of the source it was made from.
RequestParts(pf) == [k \in 1..Len(pf) |-> pf[k].index]

\* C26: in the generation request of a multi-file call the file parts appear
\* in the order of the files array, whatever the order the resolutions
\* completed in.
C26_PartsInFilesOrder ==
    genCalls > 0 =>
        \A k \in 1..Len(processedFiles) : RequestParts(processedFiles)[k] = k

\* The video sources of a request: YouTube URLs, file_uri sources declared
\* with a video MIME type, and url / path sources whose detected MIME type
\* is a video type.
VideoSources ==
    {i \in 1..Len(files) :
        \/ files[i].url = "youtube"
        \/ files[i].file_uri # "" /\ IsVideo(files[i].mime_type)
        \/ IsVideo(mimeType[i])}

\* C27: a request with more than one video source, in any combination of
\* the three kinds, never reaches the generation call.
C27_AtMostOneVideoGenerated ==
    genCalls > 0 => Cardinality(VideoSources) <= 1

\* C28: when no notification channel is configured the large-upload handler
\* returns an error text and starts no background task: no download, no
\* beginUpload, sendBytes or getStatus call and no notification ever happens.
C28_NoChannelNoBackgroundTask ==
    ~notifyConfigured =>
        /\ bpc = "none"
        /\ \A k \in CallKinds : calls[k] = 0
        /\ \A m \in Markers : notes[m] = 0
        /\ lastMsg = NoMessage
        /\ ~tempFile
        /\ hpc \in {"idle", "returned"}
        /\ hpc = "returned" => handlerResponse = "error"

C28_Witness ==
    /\ ~notifyConfigured
    /\ hpc = "returned"
    /\ handlerResponse = "error"
    /\ bpc = "none"

\* C29: a terminal remote state (ACTIVE or FAILED) answered on the last
\* permitted getStatus attempt is reported as that outcome: ACTIVE as
\* success, FAILED as failure, and no timeout notification is sent.
C29_TerminalOnLastAttemptReported ==
    (attempts = MAX_FILE_POLLING_ATTEMPTS /\ lastState \in {"ACTIVE", "FAILED"}) =>
        /\ notes["timeout"] = 0
        /\ lastMsg.marker = (IF lastState = "ACTIVE" THEN "success" ELSE "failure")

\* C30: cleanup deletes only files the request itself downloaded: every path
\* handed to deleteFile belongs to a url source whose download was issued,
\* and the path of a caller-supplied local file is never marked for cleanup
\* nor deleted.
C30_OnlyDownloadsDeleted ==
    /\ \A i \in deleted :
          /\ files[i].url # ""
          /\ files[i].path = ""
          /\ reqs["download"][i] >= 1
    /\ \A i \in 1..Len(files) :
          files[i].path # "" => i \notin deleted /\ i \notin cleanupPaths

C30_Witness ==
    /\ rpc = "done"
    /\ \E i, j \in 1..Len(files) :
          /\ i \in deleted
          /\ files[j].path # ""
          /\ fpc[j] = "done"
          /\ j \notin deleted

====
